---- MODULE Spec2Model ----
(***************************************************************************)
(* A model of BrandedImageGenerator (image_gen_main.py): construction      *)
(* (load_config, setup_gemini, create_directories), process_prompt,        *)
(* batch_process, generate_image_with_gemini, apply_branding and           *)
(* generate_variants, together with the part of the environment they read  *)
(* and write: the configuration file, the logo file, the output directory  *)
(* tree, the files saved and the wall clock.                               *)
(*                                                                         *)
(* Python values: a str is a TLA+ string; an optional value is <<>> (None) *)
(* or <<v>>; a list is a sequence; a dict is a record.                     *)
(***************************************************************************)
EXTENDS Integers, Sequences, FiniteSets, TLC

VARIABLES
    config,     \* the content of config.json (read by load_config, then fixed)
    logoFile,   \* what the file system holds at brand.logo_path
    pc,         \* the position of the program
    mode,       \* "idle", "batch" (inside batch_process), "direct", "probe"
    dirs,       \* the directories that exist under the output root
    writes,     \* the image files saved so far, in order
    clock,      \* the wall clock, in seconds
    prompts,    \* batch_process: its argument
    i,          \* batch_process: the enumerate index (1-based, 0 before the loop)
    results,    \* batch_process: its local list `results`
    returned,   \* what batch_process returned to its caller (None until then)
    log,        \* one record per call of process_prompt, the last one running
    k,          \* generate_variants: the position in image_variants.sizes
    diskFault,  \* whether the file system has made an Image.save raise
    probe       \* a direct call of apply_branding: its arguments and result

vars == <<config, logoFile, pc, mode, dirs, writes, clock, prompts, i, results,
          returned, log, k, diskFault, probe>>

----------------------------------------------------------------------------
(* Bounds of the model.                                                    *)

\* The longest batch handed to batch_process.
MaxBatch == 3
\* The number of direct process_prompt calls in one run.
MaxCalls == 2
\* The last clock value (seconds after the start of the run).
MaxClock == 1

----------------------------------------------------------------------------
(* Python values.                                                          *)

None == <<>>
Some(v) == <<v>>

\* `not x` for an optional string: None and "" are falsy.
Falsy(o) == o = None \/ o[1] = ""

Min(a, b) == IF a <= b THEN a ELSE b

\* s.startswith(p)
StartsWith(s, p) == Len(s) >= Len(p) /\ SubSeq(s, 1, Len(p)) = p

\* os.path.join(a, b): an absolute b discards a.
PathJoin(a, b) ==
    IF StartsWith(b, "/") THEN b
    ELSE IF a = "" \/ SubSeq(a, Len(a), Len(a)) = "/" THEN a \o b
    ELSE a \o "/" \o b

\* The working directory of the process.
Cwd == "/app"

\* os.path.abspath(p) for a path without "." and ".." segments.
AbsPath(p) == IF StartsWith(p, "/") THEN p ELSE PathJoin(Cwd, p)

----------------------------------------------------------------------------
(* IEEE 754 binary64 arithmetic, as CPython performs `int / int`,          *)
(* `int * float` and `int(float)` on small positive integers.  A float is  *)
(* [bits, exp]: a significand of DoubleBits bits, most significant first,  *)
(* whose value is bits * 2^exp.  Every operation rounds to nearest, ties   *)
(* to even.                                                                *)

\* The significand width of a Python float.
DoubleBits == 53

RECURSIVE IntBits(_)
\* The binary digits of n, most significant first (<<>> for 0).
IntBits(n) == IF n = 0 THEN <<>> ELSE Append(IntBits(n \div 2), n % 2)

RECURSIVE BitsToInt(_)
BitsToInt(b) ==
    IF b = <<>> THEN 0
    ELSE 2 * BitsToInt(SubSeq(b, 1, Len(b) - 1)) + b[Len(b)]

RECURSIVE IncBits(_)
\* b + 1 (one digit longer when b is all ones).
IncBits(b) ==
    IF b = <<>> THEN <<1>>
    ELSE IF b[Len(b)] = 0 THEN [b EXCEPT ![Len(b)] = 1]
    ELSE Append(IncBits(SubSeq(b, 1, Len(b) - 1)), 0)

\* Round a significand up or not, renormalising when it carries out.
RoundBits(bits, exp, up) ==
    IF ~up THEN [bits |-> bits, exp |-> exp]
    ELSE LET b == IncBits(bits)
         IN  IF Len(b) > DoubleBits
             THEN [bits |-> SubSeq(b, 1, DoubleBits), exp |-> exp + 1]
             ELSE [bits |-> b, exp |-> exp]

FloatZero == [bits |-> [j \in 1..DoubleBits |-> 0], exp |-> 0]

RECURSIVE DivStep(_, _, _, _)
\* Long division: the digits of the quotient after `acc`, from remainder r, until
\* the significand is full; z counts the fraction digits skipped before its first 1.
DivStep(acc, r, b, z) ==
    IF Len(acc) = DoubleBits THEN [bits |-> acc, rem |-> r, z |-> z]
    ELSE LET bit == IF 2 * r >= b THEN 1 ELSE 0
             r2 == 2 * r - bit * b
         IN  IF acc = <<>> /\ bit = 0 THEN DivStep(acc, r2, b, z + 1)
             ELSE DivStep(Append(acc, bit), r2, b, z)

\* a / b for integers a >= 0, b > 0 (true division, correctly rounded).
FloatDiv(a, b) ==
    IF a = 0 THEN FloatZero
    ELSE LET whole == IntBits(a \div b)
             d == DivStep(whole, a % b, b, 0)
             exp == 0 - (d.z + (DoubleBits - Len(whole)))
             up == \/ 2 * d.rem > b
                   \/ 2 * d.rem = b /\ d.bits[DoubleBits] = 1
         IN  RoundBits(d.bits, exp, up)

RECURSIVE MulStep(_, _, _, _)
\* Long multiplication from the last digit: the digits of b * h + c, before `acc`.
MulStep(b, h, c, acc) ==
    IF c = 0 /\ b = <<>> THEN acc
    ELSE LET t == (IF b = <<>> THEN 0 ELSE b[Len(b)] * h) + c
         IN  MulStep(SubSeq(b, 1, Len(b) - 1), h, t \div 2, <<t % 2>> \o acc)

\* The digits of b * h, for b with a leading 1 and h > 0.
MulBits(b, h) == MulStep(b, h, 0, <<>>)

\* h * x for an integer h > 0 (h converts to a float exactly).
FloatMulInt(h, x) ==
    LET p == MulBits(x.bits, h)
        d == Len(p) - DoubleBits
        tail == SubSeq(p, DoubleBits + 1, Len(p))
        more == \E j \in 2..d : tail[j] = 1
        up == /\ d > 0
              /\ tail[1] = 1
              /\ (more \/ p[DoubleBits] = 1)
    IN  IF x = FloatZero THEN FloatZero
        ELSE RoundBits(SubSeq(p, 1, DoubleBits), x.exp + d, up)

\* int(x): truncation toward zero of a float x >= 0 below 2^31.
FloatToInt(x) ==
    IF x.exp >= 0 THEN BitsToInt(x.bits)
    ELSE IF 0 - x.exp >= DoubleBits THEN 0
    ELSE BitsToInt(SubSeq(x.bits, 1, DoubleBits + x.exp))

\* A faulty LogoHeight: the proportional height rounded to the nearest integer.
LogoHeightNearest(logo_width, logoW, logoH) ==
    (2 * logoH * logo_width + logoW) \div (2 * logoW)

\* logo_ratio = logo_width / logo.width; logo_height = int(logo.height * logo_ratio)
LogoHeight(logo_width, logoW, logoH) ==
    FloatToInt(FloatMulInt(logoH, FloatDiv(logo_width, logoW)))

----------------------------------------------------------------------------
(* The clock and its two renderings.                                       *)

Pad2(n) == IF n < 10 THEN "0" \o ToString(n) ELSE ToString(n)

\* datetime.now().strftime('%Y%m%d_%H%M%S'), the run starting at noon.
Strftime(c) == "20240101_1200" \o Pad2(c)

\* datetime.now().isoformat() on a whole second.
IsoFormat(c) == "2024-01-01T12:00:" \o Pad2(c)

----------------------------------------------------------------------------
(* Configurations, logo files and inputs.                                  *)

Size(n, w, h) == [name |-> n, width |-> w, height |-> h]

\* The configuration setup_script.create_config writes, with two of its sizes.
BaseConfig ==
    [ api_key   |-> "KEY",
      colors    |-> <<"#0066CC", "#00A3E0", "#FFFFFF">>,
      logo_path |-> Some("assets/logo.png"),
      format    |-> "jpg",
      sizes     |-> <<Size("thumbnail", 400, 400), Size("email_header", 600, 200)>>,
      outdir    |-> "generated_images" ]

OneSizeConfig == [BaseConfig EXCEPT !.sizes = <<Size("thumbnail", 400, 400)>>]
NoLogoConfig == [OneSizeConfig EXCEPT !.logo_path = None]
NoKeyConfig == [OneSizeConfig EXCEPT !.api_key = ""]
\* Two size entries with one name.
DupSizesConfig ==
    [BaseConfig EXCEPT !.sizes = <<Size("thumbnail", 400, 400), Size("thumbnail", 600, 200)>>]
\* No brand colour.
NoColorsConfig == [OneSizeConfig EXCEPT !.colors = <<>>]

LogoFile(e, r, w, h) == [exists |-> e, readable |-> r, width |-> w, height |-> h]
\* The logo setup_script.create_placeholder_logo saves.
GoodLogo == LogoFile(TRUE, TRUE, 200, 200)
MissingLogo == LogoFile(FALSE, FALSE, 0, 0)
CorruptLogo == LogoFile(TRUE, FALSE, 0, 0)
\* A readable logo so flat that its scaled height is 0.
FlatLogo == LogoFile(TRUE, TRUE, 200, 1)

\* The runs of main(): a configuration and the logo file beside it, as
\* setup_script leaves them, without the API key, and without a colour.
Scenarios ==
    {<<c, GoodLogo>> : c \in {BaseConfig, NoKeyConfig, NoColorsConfig}}

\* The runs of a caller of process_prompt: every state of the logo, and the
\* configurations that are not valid.
DirectScenarios ==
    {<<OneSizeConfig, f>> : f \in {GoodLogo, MissingLogo, CorruptLogo, FlatLogo}}
    \cup {<<c, GoodLogo>> : c \in {NoLogoConfig, DupSizesConfig, NoColorsConfig}}

\* An element of the list given to batch_process: a bare string or a dict.
StrItem(p) == [kind |-> "str", prompt |-> p, hasName |-> FALSE, name |-> None]
DictItem(p) == [kind |-> "dict", prompt |-> p, hasName |-> FALSE, name |-> None]
NamedItem(p, n) == [kind |-> "dict", prompt |-> p, hasName |-> TRUE, name |-> Some(n)]

PromptItems ==
    { StrItem("Summer sale"), DictItem("Product launch"),
      NamedItem("Web banner", "web_banner") }

RECURSIVE SeqsUpTo(_, _)
SeqsUpTo(S, n) ==
    IF n = 0 THEN {<<>>}
    ELSE LET shorter == SeqsUpTo(S, n - 1)
         IN  shorter \cup {Append(s, x) : s \in shorter, x \in S}

BatchInputs == SeqsUpTo(PromptItems, MaxBatch)

\* The arguments of direct process_prompt calls: a prompt with no name, with an
\* empty name and with a name, and two prompts that agree on more than the 30
\* characters kept of a derived name.
DirectCalls ==
    { <<"Summer sale", None>>, <<"Summer sale", Some("")>>,
      <<"Summer sale", Some("promo")>>,
      <<"Modern tech product launch with neon", None>>,
      <<"Modern tech product launch with glass", None>> }

----------------------------------------------------------------------------
(* Pure helpers of BrandedImageGenerator.                                  *)

\* The number of characters process_prompt keeps of a derived name.
NameLimit == 30

RECURSIVE ReplaceSpaces(_)
\* prompt.replace(' ', '_')
ReplaceSpaces(s) ==
    IF s = "" THEN ""
    ELSE (IF SubSeq(s, 1, 1) = " " THEN "_" ELSE SubSeq(s, 1, 1))
         \o ReplaceSpaces(SubSeq(s, 2, Len(s)))

\* A faulty DeriveName: the spaces are kept.
DeriveNameKeepsSpaces(prompt) == SubSeq(prompt, 1, Min(NameLimit, Len(prompt)))

\* prompt.replace(' ', '_')[:30]
DeriveName(prompt) == SubSeq(ReplaceSpaces(prompt), 1, Min(NameLimit, Len(prompt)))

\* process_prompt: the name it works under.
PromptName(prompt, arg) == IF Falsy(arg) THEN DeriveName(prompt) ELSE arg[1]

\* A faulty DefaultName: the position counted from 0.
DefaultNameFromZero(idx) == "prompt_" \o ToString(idx - 1)

\* batch_process: f"prompt_{i}"
DefaultName(idx) == "prompt_" \o ToString(idx)

\* batch_process: the (prompt, name) it hands to process_prompt for element idx.
BatchArgs(item, idx) ==
    IF item.kind = "dict"
    THEN [prompt |-> item.prompt,
          name |-> IF item.hasName THEN item.name ELSE Some(DefaultName(idx))]
    ELSE [prompt |-> item.prompt, name |-> Some(DefaultName(idx))]

\* A faulty AppendResult: the None of a failed prompt is appended too.
AppendResultAlways(res, result) ==
    IF result # None THEN Append(res, result[1]) ELSE Append(res, None)

\* batch_process: `if result: results.append(result)`
AppendResult(res, result) == IF result # None THEN Append(res, result[1]) ELSE res

\* The side of the square canvas create_base_image draws.
CanvasSize == 1024

\* create_base_image: raises on brand_colors[0] when there is no colour, or when
\* anything under it does (envRaises).
CreateBaseImage(brand_colors, envRaises) ==
    IF envRaises \/ Len(brand_colors) = 0
    THEN [raised |-> TRUE, img |-> None]
    ELSE [raised |-> FALSE,
          img |-> Some([width |-> CanvasSize, height |-> CanvasSize,
                        fill |-> brand_colors[1], logos |-> {}])]

\* generate_image_with_gemini: every exception becomes None.
GenerateImageWithGemini(cfg, envRaises) ==
    LET r == CreateBaseImage(cfg.colors, envRaises)
    IN  IF r.raised THEN None ELSE r.img

\* Image.resize((w, h)): Pillow raises ValueError unless both are positive.
ResizeRaises(w, h) == w < 1 \/ h < 1

\* The margin apply_branding leaves right of and below the logo.
LogoInset == 20

\* A faulty ApplyBranding: no try/except around the loading and the compositing.
ApplyBrandingNoExcept(img, logo_path, file) ==
    IF Falsy(logo_path) \/ ~file.exists THEN [raised |-> FALSE, img |-> img]
    ELSE IF ~file.readable THEN [raised |-> TRUE, img |-> img]
    ELSE LET logo_width == img.width \div 10
             logo_height == LogoHeight(logo_width, file.width, file.height)
         IN  IF ResizeRaises(logo_width, logo_height)
             THEN [raised |-> TRUE, img |-> img]
             ELSE [raised |-> FALSE,
                   img |-> [img EXCEPT !.logos = @ \cup
                               {[x |-> img.width - logo_width - LogoInset,
                                 y |-> img.height - logo_height - LogoInset,
                                 width |-> logo_width, height |-> logo_height]}]]

\* apply_branding: the image returned, and whether an exception left the method.
ApplyBranding(img, logo_path, file) ==
    IF Falsy(logo_path) \/ ~file.exists THEN [raised |-> FALSE, img |-> img]
    ELSE IF ~file.readable THEN [raised |-> FALSE, img |-> img]
    ELSE LET logo_width == img.width \div 10
             logo_height == LogoHeight(logo_width, file.width, file.height)
             position == <<img.width - logo_width - LogoInset,
                           img.height - logo_height - LogoInset>>
         IN  IF ResizeRaises(logo_width, logo_height)
             THEN [raised |-> FALSE, img |-> img]
             ELSE [raised |-> FALSE,
                   img |-> [img EXCEPT !.logos = @ \cup
                               {[x |-> position[1], y |-> position[2],
                                 width |-> logo_width, height |-> logo_height]}]]

\* A faulty SizeString: height first.
SizeStringSwapped(w, h) == ToString(h) \o "x" \o ToString(w)

\* generate_variants: f"{width}x{height}"
SizeString(w, h) == ToString(w) \o "x" \o ToString(h)

\* A faulty FilenameTimestamp: the clock read again for every variant.
FilenameTimestampReread(captured, now) == now

\* generate_variants: the timestamp put into a filename: the one captured before
\* the loop, whatever the clock says now.
FilenameTimestamp(captured, now) == captured

\* generate_variants: f"{prompt_name}_{name}_{timestamp}.{format}"
Filename(prompt_name, name, timestamp, format) ==
    prompt_name \o "_" \o name \o "_" \o timestamp \o "." \o format

\* generate_variants: os.path.join(self.output_dir, name, filename)
Filepath(outdir, name, filename) == PathJoin(PathJoin(outdir, name), filename)

\* generate_variants: the dict appended for one size entry.
VariantEntry(size_config, filepath) ==
    [ name |-> size_config.name,
      size |-> SizeString(size_config.width, size_config.height),
      path |-> filepath,
      url  |-> "file://" \o AbsPath(filepath) ]

\* A faulty DirsToCreate: the subdirectory of the last size entry forgotten.
DirsToCreateButLast(cfg) ==
    {cfg.outdir}
    \cup {cfg.outdir \o "/" \o cfg.sizes[n].name : n \in 1..(Len(cfg.sizes) - 1)}

\* create_directories: the directories it makes.
DirsToCreate(cfg) ==
    {cfg.outdir} \cup {cfg.outdir \o "/" \o cfg.sizes[n].name : n \in 1..Len(cfg.sizes)}

\* Image.save(filepath): fails when the directory is missing, or when the
\* file system says so (envRaises); an existing file is overwritten.
SaveRaises(filepath, dir, existing, files, envRaises) == envRaises \/ dir \notin existing

----------------------------------------------------------------------------
(* The state machine.                                                      *)

NoProbe == [img |-> None, out |-> None]

InitCommon ==
    /\ mode = "idle"
    /\ dirs = {}
    /\ writes = <<>>
    /\ clock = 0
    /\ prompts = <<>>
    /\ i = 0
    /\ results = <<>>
    /\ returned = None
    /\ log = <<>>
    /\ k = 0
    /\ diskFault = FALSE
    /\ probe = NoProbe

\* main() before BrandedImageGenerator('config.json').
Init ==
    /\ \E s \in Scenarios : config = s[1] /\ logoFile = s[2]
    /\ pc = "load_config"
    /\ InitCommon

\* The paths of the files written so far.
Files == {writes[n].path : n \in 1..Len(writes)}

\* The running call of process_prompt.
Cur == log[Len(log)]

SetCur(rec) == [log EXCEPT ![Len(log)] = rec]

\* __init__, first call: load_config reads the file and keeps three fields; it
\* checks nothing.
LoadConfig ==
    /\ pc = "load_config"
    /\ pc' = "setup_gemini"
    /\ UNCHANGED <<config, logoFile, mode, dirs, writes, clock, prompts, i, results,
                   returned, log, k, diskFault, probe>>

\* __init__, second call: setup_gemini raises ValueError without an API key.
SetupGemini ==
    /\ pc = "setup_gemini"
    /\ pc' = IF config.api_key = "" THEN "init_failed" ELSE "create_directories"
    /\ UNCHANGED <<config, logoFile, mode, dirs, writes, clock, prompts, i, results,
                   returned, log, k, diskFault, probe>>

\* __init__, last call: create_directories (mkdir with exist_ok).
CreateDirectories ==
    /\ pc = "create_directories"
    /\ dirs' = dirs \cup DirsToCreate(config)
    /\ pc' = "ready"
    /\ UNCHANGED <<config, logoFile, mode, writes, clock, prompts, i, results,
                   returned, log, k, diskFault, probe>>

\* process_prompt, on entry: the name is settled before anything else.
NewCall(prompt, arg) ==
    [ prompt    |-> prompt,
      arg       |-> arg,
      name      |-> PromptName(prompt, arg),
      base      |-> None,
      branded   |-> None,
      timestamp |-> "",
      variants  |-> <<>>,
      result    |-> None,
      status    |-> "running" ]

\* main(): generator.batch_process(ps)
CallBatchProcess ==
    /\ pc = "ready" /\ mode = "idle"
    /\ \E ps \in BatchInputs : prompts' = ps
    /\ mode' = "batch"
    /\ i' = 0
    /\ results' = <<>>
    /\ pc' = "batch_loop"
    /\ UNCHANGED <<config, logoFile, dirs, writes, clock, returned, log, k,
                   diskFault, probe>>

\* batch_process: the next element of the loop, up to the call of process_prompt.
BatchNext ==
    /\ pc = "batch_loop" /\ i < Len(prompts)
    /\ i' = i + 1
    /\ LET a == BatchArgs(prompts[i + 1], i + 1)
       IN  log' = Append(log, NewCall(a.prompt, a.name))
    /\ pc' = "generate"
    /\ UNCHANGED <<config, logoFile, mode, dirs, writes, clock, prompts, results,
                   returned, k, diskFault, probe>>

\* batch_process: `return results`
BatchReturn ==
    /\ pc = "batch_loop" /\ i = Len(prompts)
    /\ returned' = Some(results)
    /\ pc' = "done"
    /\ UNCHANGED <<config, logoFile, mode, dirs, writes, clock, prompts, i, results,
                   log, k, diskFault, probe>>

\* A caller of its own: generator.process_prompt(p, n)
CallProcessPrompt ==
    /\ pc = "ready" /\ mode \in {"idle", "direct"}
    /\ Len(log) < MaxCalls
    /\ \E c \in DirectCalls : log' = Append(log, NewCall(c[1], c[2]))
    /\ mode' = "direct"
    /\ pc' = "generate"
    /\ UNCHANGED <<config, logoFile, dirs, writes, clock, prompts, i, results,
                   returned, k, diskFault, probe>>

\* Where process_prompt returns to.
ReturnPc == IF mode = "batch" THEN "batch_loop" ELSE "ready"

\* process_prompt: base_image = self.generate_image_with_gemini(prompt), and the
\* `return None` when there is none.
GenerateImage ==
    /\ pc = "generate"
    /\ \E envRaises \in BOOLEAN :
          LET img == GenerateImageWithGemini(config, envRaises)
          IN  IF img = None
              THEN /\ log' = SetCur([Cur EXCEPT !.status = "none"])
                   /\ results' = IF mode = "batch" THEN AppendResult(results, None)
                                 ELSE results
                   /\ pc' = ReturnPc
              ELSE /\ log' = SetCur([Cur EXCEPT !.base = img])
                   /\ results' = results
                   /\ pc' = "brand"
    /\ UNCHANGED <<config, logoFile, mode, dirs, writes, clock, prompts, i,
                   returned, k, diskFault, probe>>

\* process_prompt: branded_image = self.apply_branding(base_image)
Brand ==
    /\ pc = "brand"
    /\ LET r == ApplyBranding(Cur.base[1], config.logo_path, logoFile)
       IN  IF r.raised
           THEN /\ log' = SetCur([Cur EXCEPT !.status = "raised in apply_branding"])
                /\ pc' = "raised"
           ELSE /\ log' = SetCur([Cur EXCEPT !.branded = Some(r.img)])
                /\ pc' = "variants"
    /\ UNCHANGED <<config, logoFile, mode, dirs, writes, clock, prompts, i, results,
                   returned, k, diskFault, probe>>

\* generate_variants, before its loop: the timestamp is read once.
StartVariants ==
    /\ pc = "variants"
    /\ log' = SetCur([Cur EXCEPT !.timestamp = Strftime(clock)])
    /\ k' = 1
    /\ pc' = "save"
    /\ UNCHANGED <<config, logoFile, mode, dirs, writes, clock, prompts, i, results,
                   returned, diskFault, probe>>

\* generate_variants: one turn of the loop (resize, name, save, append).  A save
\* that raises leaves generate_variants, process_prompt and batch_process: none
\* of them catches it.
SaveVariant ==
    /\ pc = "save" /\ k <= Len(config.sizes)
    /\ \E envRaises \in BOOLEAN :
          LET size_config == config.sizes[k]
              ts == FilenameTimestamp(Cur.timestamp, Strftime(clock))
              filename == Filename(Cur.name, size_config.name, ts, config.format)
              filepath == Filepath(config.outdir, size_config.name, filename)
              dir == PathJoin(config.outdir, size_config.name)
          IN  IF \/ ResizeRaises(size_config.width, size_config.height)
                 \/ SaveRaises(filepath, dir, dirs, Files, envRaises)
              THEN /\ log' = SetCur([Cur EXCEPT !.status = "raised in generate_variants"])
                   /\ diskFault' = (diskFault \/ envRaises)
                   /\ pc' = "raised"
                   /\ UNCHANGED <<writes, k>>
              ELSE /\ writes' = Append(writes,
                                   [ call |-> Len(log), path |-> filepath,
                                     width |-> size_config.width,
                                     height |-> size_config.height,
                                     logos |-> Cur.branded[1].logos,
                                     variant |-> size_config.name,
                                     now |-> Strftime(clock) ])
                   /\ log' = SetCur([Cur EXCEPT !.variants =
                                        Append(@, VariantEntry(size_config, filepath))])
                   /\ k' = k + 1
                   /\ UNCHANGED <<pc, diskFault>>
    /\ UNCHANGED <<config, logoFile, mode, dirs, clock, prompts, i, results,
                   returned, probe>>

\* generate_variants returns; process_prompt builds and returns its result;
\* batch_process appends it.
FinishPrompt ==
    /\ pc = "save" /\ k > Len(config.sizes)
    /\ LET result == [ prompt |-> Cur.prompt, timestamp |-> IsoFormat(clock),
                       variants |-> Cur.variants ]
       IN  /\ log' = SetCur([Cur EXCEPT !.result = Some(result), !.status = "ok"])
           /\ results' = IF mode = "batch" THEN AppendResult(results, Some(result))
                         ELSE results
    /\ pc' = ReturnPc
    /\ k' = 0
    /\ UNCHANGED <<config, logoFile, mode, dirs, writes, clock, prompts, i,
                   returned, diskFault, probe>>

\* Time passes inside generate_variants, between the reading of the timestamp and
\* a save: a resize and a save take as long as they take.
Tick ==
    /\ pc = "save" /\ k <= Len(config.sizes)
    /\ clock < MaxClock
    /\ clock' = clock + 1
    /\ UNCHANGED <<config, logoFile, pc, mode, dirs, writes, prompts, i, results,
                   returned, log, k, diskFault, probe>>

\* main(): one generator, one batch.
Next ==
    \/ LoadConfig
    \/ SetupGemini
    \/ CreateDirectories
    \/ CallBatchProcess
    \/ BatchNext
    \/ BatchReturn
    \/ GenerateImage
    \/ Brand
    \/ StartVariants
    \/ SaveVariant
    \/ FinishPrompt
    \/ Tick

Spec == Init /\ [][Next]_vars

----------------------------------------------------------------------------
(* Callers of their own: process_prompt called directly.                   *)

InitDirect ==
    /\ \E s \in DirectScenarios : config = s[1] /\ logoFile = s[2]
    /\ pc = "load_config"
    /\ InitCommon

NextDirect ==
    \/ LoadConfig
    \/ SetupGemini
    \/ CreateDirectories
    \/ CallProcessPrompt
    \/ GenerateImage
    \/ Brand
    \/ StartVariants
    \/ SaveVariant
    \/ FinishPrompt
    \/ Tick

SpecDirect == InitDirect /\ [][NextDirect]_vars

----------------------------------------------------------------------------
(* apply_branding on its own, over images and logos of many sizes.         *)

ProbeWidths == {8, 400, 1024, 1085}
ProbeHeights == {200, 1024}
ProbeLogoWidths == {5, 49, 100, 200}
ProbeLogoHeights == {1, 25, 49, 99, 150, 200}

ProbeLogos ==
    {MissingLogo, CorruptLogo}
    \cup {LogoFile(TRUE, TRUE, w, h) : w \in ProbeLogoWidths, h \in ProbeLogoHeights}

InitBrand ==
    /\ config \in {BaseConfig, NoLogoConfig}
    /\ logoFile \in ProbeLogos
    /\ pc = "probe"
    /\ mode = "probe"
    /\ dirs = {}
    /\ writes = <<>>
    /\ clock = 0
    /\ prompts = <<>>
    /\ i = 0
    /\ results = <<>>
    /\ returned = None
    /\ log = <<>>
    /\ k = 0
    /\ diskFault = FALSE
    /\ \E w \in ProbeWidths, h \in ProbeHeights :
          probe = [ img |-> Some([width |-> w, height |-> h,
                                  fill |-> config.colors[1], logos |-> {}]),
                    out |-> None ]

\* generator.apply_branding(img)
ProbeApplyBranding ==
    /\ pc = "probe"
    /\ probe' = [probe EXCEPT !.out =
                    Some(ApplyBranding(probe.img[1], config.logo_path, logoFile))]
    /\ pc' = "probed"
    /\ UNCHANGED <<config, logoFile, mode, dirs, writes, clock, prompts, i, results,
                   returned, log, k, diskFault>>

NextBrand == ProbeApplyBranding

SpecBrand == InitBrand /\ [][NextBrand]_vars

----------------------------------------------------------------------------
(* The claims.                                                             *)

\* The calls of process_prompt whose provider produced a base image.
Succeeded == {j \in 1..Len(log) : log[j].base # None}

RECURSIVE Nth(_, _)
\* The r-th smallest element of a set of numbers.
Nth(S, r) ==
    LET least == CHOOSE x \in S : \A y \in S : x <= y
    IN  IF r = 1 THEN least ELSE Nth(S \ {least}, r - 1)

\* The writes made by call j of process_prompt.
WritesOf(j) == {n \in 1..Len(writes) : writes[n].call = j}

\* The generator has been constructed: __init__ has returned.
Constructed == pc \notin {"load_config", "setup_gemini", "create_directories",
                          "init_failed", "probe", "probed"}

\* C1: when batch_process returns, every prompt of the batch was handed to
\* process_prompt, the list returned holds exactly the results of the prompts whose
\* base image was produced, in input order, and a prompt whose provider failed has
\* no result and wrote no file.
C1_BatchSkipsFailedPrompts ==
    returned # None =>
        LET out == returned[1]
        IN  /\ Len(log) = Len(prompts)
            /\ Len(out) = Cardinality(Succeeded)
            /\ \A r \in 1..Len(out) :
                  LET j == Nth(Succeeded, r)
                  IN  /\ out[r].prompt = prompts[j].prompt
                      /\ Some(out[r]) = log[j].result
            /\ \A j \in 1..Len(log) :
                  log[j].base = None => log[j].result = None /\ WritesOf(j) = {}

\* A batch of three returned two results: the second provider call failed.
C1_Witness ==
    /\ returned # None /\ Len(prompts) = 3 /\ Len(returned[1]) = 2
    /\ log[1].base # None /\ log[2].base = None /\ log[3].base # None
    /\ prompts[1].prompt # prompts[3].prompt

\* C2, as claimed: a save that raises inside generate_variants costs its prompt
\* alone: the prompt has no result and batch_process goes on.
C2_ExportFailureSkipsPrompt ==
    \A j \in 1..Len(log) :
        log[j].status = "raised in generate_variants" =>
            log[j].result = None /\ pc # "raised"

\* A valid configuration: a colour, and unique size names.
ValidConfig(cfg) ==
    /\ Len(cfg.colors) >= 1
    /\ \A a, b \in 1..Len(cfg.sizes) : cfg.sizes[a].name = cfg.sizes[b].name => a = b

\* C3, as claimed: with an invalid configuration the generator is never
\* constructed, no directory is made and no file is written.
C3_InvalidConfigRejected ==
    ~ValidConfig(config) => ~Constructed /\ dirs = {} /\ writes = <<>>

\* C4: once the generator is constructed (so whenever generate_variants runs or a
\* file has been written) the output root and the subdirectory of every size
\* entry exist, and every file written lies in one of them.
C4_DirectoriesBeforeExport ==
    (Constructed \/ writes # <<>>) =>
        /\ config.outdir \in dirs
        /\ \A n \in 1..Len(config.sizes) :
              PathJoin(config.outdir, config.sizes[n].name) \in dirs
        /\ \A n \in 1..Len(writes) :
              \E d \in dirs : StartsWith(writes[n].path, d \o "/" \o log[writes[n].call].name)

\* generate_variants is saving into the second of two distinct subdirectories.
C4_Witness ==
    /\ pc = "save" /\ k = 2 /\ Len(writes) >= 1 /\ Len(config.sizes) = 2
    /\ config.sizes[1].name # config.sizes[2].name

\* C5: a generate_variants call that returned gave one entry per size entry, in
\* the declared order: the entry's name, "{width}x{height}", and a path under
\* {output_directory}/{name}/.
C5_VariantsFollowConfig ==
    \A j \in 1..Len(log) :
        log[j].status = "ok" =>
            /\ Len(log[j].variants) = Len(config.sizes)
            /\ \A n \in 1..Len(config.sizes) :
                  LET v == log[j].variants[n]
                      s == config.sizes[n]
                  IN  /\ v.name = s.name
                      /\ v.size = ToString(s.width) \o "x" \o ToString(s.height)
                      /\ StartsWith(v.path, config.outdir \o "/" \o s.name \o "/")
                      /\ v.path \in Files

\* A prompt was exported in two sizes of different width and height.
C5_Witness ==
    \E j \in 1..Len(log) :
        /\ log[j].status = "ok" /\ Len(log[j].variants) = 2
        /\ log[j].variants[2].size = "600x200"

\* The tokens strftime gives within the clock's range.
TimestampTokens == {Strftime(c) : c \in 0..MaxClock}

\* {output_directory}/{variant}/{promptName}_{variant}_{timestamp}.{format}
ExpectedPath(promptName, variant, ts) ==
    config.outdir \o "/" \o variant \o "/" \o promptName \o "_" \o variant \o "_"
        \o ts \o "." \o config.format

\* C6: the files one generate_variants call writes, and the paths it returns, all
\* have the form {promptName}_{variantName}_{timestamp}.{format} with one
\* timestamp for the call, however the clock moves between the saves.
C6_OneTimestampPerCall ==
    \A j \in 1..Len(log) :
        \E ts \in TimestampTokens :
            /\ \A n \in WritesOf(j) :
                  writes[n].path = ExpectedPath(log[j].name, writes[n].variant, ts)
            /\ \A n \in 1..Len(log[j].variants) :
                  log[j].variants[n].path =
                      ExpectedPath(log[j].name, log[j].variants[n].name, ts)

\* One call saved two files, the second after the clock's second had changed.
C6_Witness ==
    \E a, b \in 1..Len(writes) :
        /\ a < b /\ writes[a].call = writes[b].call
        /\ writes[a].now # writes[b].now

\* The logo is not composited: no path, no file, an unreadable file, or a scaled
\* height of 0 on the canvas of create_base_image.
LogoUnavailable ==
    \/ Falsy(config.logo_path)
    \/ ~logoFile.exists
    \/ ~logoFile.readable
    \/ (logoFile.height * (CanvasSize \div 10)) \div logoFile.width = 0

\* C7: no exception leaves apply_branding; every base image gets a branded image;
\* when the logo is unavailable that image is the base image unchanged, and the
\* files exported from it carry no logo.
C7_BrandingNeverFails ==
    \A j \in 1..Len(log) :
        /\ log[j].status # "raised in apply_branding"
        /\ (log[j].base # None /\ ~(j = Len(log) /\ pc = "brand")) =>
              /\ log[j].branded # None
              /\ LogoUnavailable =>
                    /\ log[j].branded = log[j].base
                    /\ \A n \in WritesOf(j) : writes[n].logos = {}

\* A prompt was exported although its logo file could not be read.
C7_Witness ==
    /\ ~Falsy(config.logo_path) /\ logoFile.exists /\ ~logoFile.readable
    /\ \E j \in 1..Len(log) :
          /\ log[j].status = "ok" /\ WritesOf(j) # {}
          /\ log[j].branded = log[j].base

\* apply_branding was called with a logo path and a readable logo file.
ProbedWithLogo ==
    /\ pc = "probed"
    /\ ~Falsy(config.logo_path) /\ logoFile.exists /\ logoFile.readable

Abs(n) == IF n < 0 THEN 0 - n ELSE n

\* C8, as claimed: the logo is scaled to a tenth of the width and to the
\* proportional height rounded to the nearest integer (either neighbour on a tie),
\* and pasted 20 pixels from the right and bottom edges; the size of the image is
\* kept.  Stated where both scaled sides are at least 1.
C8_LogoScaledToNearest ==
    LET img == probe.img[1]
        out == probe.out[1].img
        lw == img.width \div 10
    IN  (ProbedWithLogo /\ lw >= 1 /\ 2 * logoFile.height * lw >= logoFile.width) =>
            /\ out.width = img.width /\ out.height = img.height
            /\ \E p \in out.logos :
                  /\ out.logos = {p}
                  /\ p.width = lw
                  /\ 2 * Abs(p.height * logoFile.width - logoFile.height * lw)
                        <= logoFile.width
                  /\ p.x = img.width - p.width - 20
                  /\ p.y = img.height - p.height - 20

\* C8, amended: the logo width is W \div 10; the logo height is the proportional
\* height h * width / w truncated, never rounded up, and one less than it at most
\* (only where that quotient is a whole number, which the float product can miss
\* from below); the logo is pasted at (W - width - 20, H - height - 20); with a
\* scaled side of 0 nothing is pasted; the size of the image is kept and no
\* exception leaves apply_branding.
C8_LogoScaledByTruncation ==
    ProbedWithLogo =>
        LET img == probe.img[1]
            out == probe.out[1].img
            lw == img.width \div 10
            num == logoFile.height * lw
            floor == num \div logoFile.width
            whole == num % logoFile.width = 0
        IN  /\ ~probe.out[1].raised
            /\ out.width = img.width /\ out.height = img.height
            /\ \/ /\ out = img
                  /\ lw = 0 \/ floor = 0 \/ (floor = 1 /\ whole)
               \/ \E lh \in {floor - 1, floor} :
                     /\ lw >= 1 /\ lh >= 1
                     /\ lh = floor - 1 => whole
                     /\ out.logos = {[ x |-> img.width - lw - 20,
                                       y |-> img.height - lh - 20,
                                       width |-> lw, height |-> lh ]}

\* On the 1024-pixel canvas a 100x99 logo (proportional height 100.98) was
\* pasted 100 pixels high.
C8_Witness ==
    /\ ProbedWithLogo
    /\ probe.img[1].width = 1024 /\ logoFile.width = 100 /\ logoFile.height = 99
    /\ \E p \in probe.out[1].img.logos : p.width = 102 /\ p.height = 100

\* Character n of a string.
Char(s, n) == SubSeq(s, n, n)

\* C9: a call without a name (None or "") works under the prompt's first 30
\* characters with every space replaced by an underscore; a call with a name
\* works under that name; every file of the call carries the name; and a call
\* raises only when the file system fails a save, also when an earlier call
\* worked under the same name.
C9_NameDerivedFromPrompt ==
    \A j \in 1..Len(log) :
        LET e == log[j]
        IN  /\ Falsy(e.arg) =>
                  /\ Len(e.name) = Min(30, Len(e.prompt))
                  /\ \A n \in 1..Len(e.name) :
                        Char(e.name, n) =
                            IF Char(e.prompt, n) = " " THEN "_" ELSE Char(e.prompt, n)
            /\ ~Falsy(e.arg) => e.name = e.arg[1]
            /\ \A n \in WritesOf(j) :
                  StartsWith(writes[n].path,
                             config.outdir \o "/" \o writes[n].variant \o "/"
                                 \o e.name \o "_" \o writes[n].variant \o "_")
            /\ e.status \in {"running", "ok", "none", "raised in generate_variants"}
            /\ e.status = "raised in generate_variants" => diskFault

\* Two different prompts longer than 30 characters were processed without a name,
\* derived the same name and both returned a result.
C9_Witness ==
    /\ Len(log) = 2
    /\ log[1].prompt # log[2].prompt /\ Len(log[1].prompt) > 30
    /\ log[1].arg = None /\ Falsy(log[2].arg)
    /\ log[1].name = log[2].name
    /\ log[1].status = "ok" /\ log[2].status = "ok"

\* The elements of the batch reached so far that carry no name.
Unnamed == {j \in 1..Len(log) : ~prompts[j].hasName}

\* C10: in a batch, the element at position j (1-based, failed prompts counted)
\* that carries no 'name' key is processed under "prompt_j", given to
\* process_prompt as its name, so no name is derived from its text; these names
\* are pairwise distinct and its files carry them.
C10_DefaultNamesByPosition ==
    mode = "batch" =>
        /\ \A j \in Unnamed :
              /\ log[j].arg = Some("prompt_" \o ToString(j))
              /\ log[j].name = "prompt_" \o ToString(j)
              /\ log[j].prompt = prompts[j].prompt
              /\ \A n \in WritesOf(j) :
                    StartsWith(writes[n].path,
                               config.outdir \o "/" \o writes[n].variant \o "/prompt_"
                                   \o ToString(j) \o "_")
        /\ \A a, b \in Unnamed : a # b => log[a].name # log[b].name

\* The first prompt failed; the second, a dict without a name, was exported as
\* prompt_2, and a third, a bare string, is under way as prompt_3.
C10_Witness ==
    /\ mode = "batch" /\ Len(log) = 3
    /\ log[1].status = "none"
    /\ prompts[2].kind = "dict" /\ ~prompts[2].hasName
    /\ log[2].status = "ok" /\ log[2].name = "prompt_2" /\ WritesOf(2) # {}
    /\ prompts[3].kind = "str" /\ log[3].name = "prompt_3"

====
